---- MODULE Spec2Model ----
(***************************************************************************)
(* Model of batch_portraits_v2.py: the CSV load, the optional style        *)
(* reference, and the per-subject loop of main() (request, payload         *)
(* extraction, file open, base64 decode, write, error handler, pacing      *)
(* sleep).  Python str values are sequences of one-character strings,      *)
(* bytes values are sequences of integers 0..255.                          *)
(***************************************************************************)
EXTENDS Integers, Sequences, FiniteSets, TLC

VARIABLES
    reader,       \* the open CSV: [fieldnames, lines], or Closed once read
    args,         \* parsed command line: style, format, quality, sleep, size
    style_file,   \* contents of the file at args.style (or Unreadable)
    out_dir0,     \* contents of the output directory when the run starts
    out_files,    \* the output directory: file name -> bytes
    pc,           \* position in main()
    rows,         \* the filtered batch: the raw 'name' value of each kept row
    style_bytes,  \* None, or the bytes read from the style file
    i,            \* enumerate index of the current subject (0 before the loop)
    b64,          \* result.data[0].b64_json of the current subject
    exc,          \* an exception propagating out of the try statement
    requests,     \* every request sent to the provider, in order
    status,       \* per subject: "pending", "written" or "failed"
    before,       \* the output directory as it was when the subject began
    opened,       \* subjects whose output file was opened for writing
    slept,        \* per subject: the delays taken after it
    replies,      \* how the provider answered each request, in order
    moves,        \* every change of a status: subject, from, to, requests so far
    console       \* the lines printed

vars == <<reader, args, style_file, out_dir0, out_files, pc, rows, style_bytes,
          i, b64, exc, requests, status, before, opened, slept, replies,
          moves, console>>

-----------------------------------------------------------------------------
(* Bounds and input domains *)

MaxRows == 2

DefaultSize == 1024

\* Python's None where a str is expected, and where bytes are expected.
None == <<"<None>">>
NoneBytes == <<-1>>

Closed == [fieldnames |-> <<>>, lines |-> <<>>]
Unreadable == <<-2>>
NoExc == "none"

Whitespace == {" ", "\t"}

\* The value of the 'name' field of an input row; None: the row ends before it.
NameCells ==
    { None, <<>>, <<" ">>, <<"A", " ", "B">>, <<" ", "A", "_", "B">> }

Headers == { <<"name">>, <<"id", "name">>, <<"id">> }

StyleInputs ==
    { [style |-> None, file |-> Unreadable],
      [style |-> <<"r", ".", "P", "N", "G">>, file |-> Unreadable],
      [style |-> <<"r", ".", "P", "N", "G">>, file |-> <<>>],
      [style |-> <<"r", ".", "P", "N", "G">>, file |-> <<137, 80>>] }

RunInputs ==
    { [format |-> <<"p", "n", "g">>, quality |-> "high", sleep |-> 1,
       dir |-> <<>>],
      [format |-> <<"j", "p", "e", "g">>, quality |-> "low", sleep |-> 0,
       dir |-> <<"A", "_", "B", ".", "j", "p", "e", "g">> :> <<9, 9, 9>>] }

-----------------------------------------------------------------------------
(* str helpers *)

RECURSIVE LStrip(_)
LStrip(s) ==
    IF s # <<>> /\ Head(s) \in Whitespace THEN LStrip(Tail(s)) ELSE s

RECURSIVE RStrip(_)
RStrip(s) ==
    IF s # <<>> /\ s[Len(s)] \in Whitespace
    THEN RStrip(SubSeq(s, 1, Len(s) - 1))
    ELSE s

Strip(s) == RStrip(LStrip(s))

LowerChar(c) ==
    CASE c = "A" -> "a"
      [] c = "B" -> "b"
      [] c = "G" -> "g"
      [] c = "N" -> "n"
      [] c = "P" -> "p"
      [] OTHER -> c

Lower(s) == [k \in 1..Len(s) |-> LowerChar(s[k])]

Replace(s, old, new) == [k \in 1..Len(s) |-> IF s[k] = old THEN new ELSE s[k]]


\* pathlib: Path(p).name, the part after the last separator.
RECURSIVE PathName(_)
PathName(p) ==
    IF \E k \in 1..Len(p) : p[k] = "/"
    THEN PathName(Tail(p))
    ELSE p

-----------------------------------------------------------------------------
(* csv.DictReader *)

\* The fields of an input line whose 'name' field is cell, under a header.
RECURSIVE MakeLine(_, _)
MakeLine(header, cell) ==
    IF header = <<>> THEN <<>>
    ELSE IF Head(header) = "name"
         THEN IF cell = None THEN <<>> ELSE <<cell>> \o MakeLine(Tail(header), cell)
         ELSE <<<<"7">>>> \o MakeLine(Tail(header), cell)

MakeLines(header, cells) == [k \in 1..Len(cells) |-> MakeLine(header, cells[k])]

Tables ==
    { [fieldnames |-> h, lines |-> MakeLines(h, cells)] :
        h \in Headers,
        cells \in UNION { [1..n -> NameCells] : n \in 0..MaxRows } }

\* DictReader.__next__ skips the lines that have no field at all.
NonEmptyLines(lines) == SelectSeq(lines, LAMBDA l : l # <<>>)

\* r.get(key, default) on the dict DictReader builds for a line: dict(zip(
\* fieldnames, line)), then restval (None) for every field name past the line.
DictGet(fieldnames, line, key, default) ==
    LET at == { k \in 1..Len(fieldnames) : fieldnames[k] = key }
    IN  IF at = {} THEN default
        ELSE IF \E k \in at : k > Len(line) THEN None
        ELSE line[CHOOSE k \in at : \A m \in at : m <= k]

NameOf(fieldnames, line) == DictGet(fieldnames, line, "name", <<>>)

HasNameColumn(fieldnames) == \E k \in 1..Len(fieldnames) : fieldnames[k] = "name"

\* r.get("name", "").strip() raises AttributeError on None.
FilterRaises(fieldnames, lines) ==
    \E k \in 1..Len(lines) : NameOf(fieldnames, lines[k]) = None

KeepRow(name) == Strip(name) # <<>>

\* rows = [r for r in reader if r.get("name", "").strip()]; a row is kept as
\* the value of its 'name' field, the only field main() reads.
RECURSIVE FilterRows(_, _)
FilterRows(fieldnames, lines) ==
    IF lines = <<>> THEN <<>>
    ELSE LET name == NameOf(fieldnames, Head(lines))
             rest == FilterRows(fieldnames, Tail(lines))
         IN  IF KeepRow(name) THEN <<name>> \o rest ELSE rest

-----------------------------------------------------------------------------
(* base64.b64decode(s), non-strict: binascii.a2b_base64 *)

B64Alphabet ==
    << "A", "B", "C", "D", "E", "F", "G", "H", "I", "J", "K", "L", "M",
       "N", "O", "P", "Q", "R", "S", "T", "U", "V", "W", "X", "Y", "Z",
       "a", "b", "c", "d", "e", "f", "g", "h", "i", "j", "k", "l", "m",
       "n", "o", "p", "q", "r", "s", "t", "u", "v", "w", "x", "y", "z",
       "0", "1", "2", "3", "4", "5", "6", "7", "8", "9", "+", "/" >>

IsB64Char(c) == \E k \in 1..Len(B64Alphabet) : B64Alphabet[k] = c

B64Value(c) == (CHOOSE k \in 1..Len(B64Alphabet) : B64Alphabet[k] = c) - 1

\* The scan of a2b_base64 from position k: quad is the position in the
\* current group of four, left the bits not yet emitted, pads the '=' seen
\* since the last data character, out the bytes emitted.
RECURSIVE A2B(_, _, _, _, _, _)
A2B(s, k, quad, left, pads, out) ==
    IF k > Len(s)
    THEN [ok |-> quad = 0, bytes |-> out]
    ELSE IF s[k] = "="
    THEN IF quad >= 2 /\ quad + pads + 1 >= 4
         THEN [ok |-> TRUE, bytes |-> out]
         ELSE A2B(s, k + 1, quad, left, IF quad >= 2 THEN pads + 1 ELSE pads, out)
    ELSE IF ~IsB64Char(s[k])
    THEN A2B(s, k + 1, quad, left, pads, out)
    ELSE LET v == B64Value(s[k])
         IN  CASE quad = 0 -> A2B(s, k + 1, 1, v, 0, out)
               [] quad = 1 ->
                    A2B(s, k + 1, 2, v % 16, 0,
                        Append(out, (left * 4 + v \div 16) % 256))
               [] quad = 2 ->
                    A2B(s, k + 1, 3, v % 4, 0,
                        Append(out, (left * 16 + v \div 4) % 256))
               [] OTHER ->
                    A2B(s, k + 1, 0, 0, 0,
                        Append(out, (left * 64 + v) % 256))

\* [ok, bytes]: ok is FALSE where b64decode raises (None: TypeError; a
\* malformed string: binascii.Error).
B64Decode(s) ==
    IF s = None THEN [ok |-> FALSE, bytes |-> <<>>] ELSE A2B(s, 1, 0, 0, 0, <<>>)

DecodeError(s) == IF s = None THEN "TypeError" ELSE "binascii.Error"


-----------------------------------------------------------------------------
(* The provider and the values main() builds *)

Payloads ==
    { <<"Q", "U", "I", "=">>, <<"Q", "!", "Q", "=", "=">>, <<"Q", "Q", "=">> }

\* The record of a change of the status of subject k.
Move(k, from, to) == [subject |-> k, from |-> from, to |-> to, sent |-> Len(requests)]

\* What images.edit / images.generate returns: data lists the b64_json of
\* each returned image (None when the provider sent none).
Responses == { [data |-> <<>>], [data |-> <<None>>] }
             \cup { [data |-> <<p>>] : p \in Payloads }

ProviderErrors == { "TypeError", "APIError" }

NoQuality == "<absent>"

make_prompt(person_name) == <<"<template head>">> \o person_name \o <<"<template tail>">>

size_str(size) == [w |-> size, h |-> size]

PersonName(k) == Strip(rows[k])

\* The file name without the replacement of spaces.
OutNameKeepSpaces(person_name, format) ==
    person_name \o <<".">> \o Lower(format)

OutName(person_name, format) ==
    Replace(person_name, " ", "_") \o <<".">> \o Lower(format)

OutPath(k) == OutName(PersonName(k), args.format)

\* Truth value of an optional str, and of optional bytes: None and the empty
\* value are false.
TruthyStr(v) == v # None /\ v # <<>>

TruthyBytes(v) == v # NoneBytes /\ v # <<>>

\* if style_bytes: (line 83)
UseEdit(sb) == TruthyBytes(sb)

EditRequest ==
    [subject |-> i, mode |-> "edit", model |-> "gpt-image-1",
     image |-> style_bytes, image_name |-> PathName(args.style),
     prompt |-> make_prompt(PersonName(i)), size |-> size_str(args.size),
     quality |-> NoQuality, output_format |-> Lower(args.format)]

GenerateRequest(quality) ==
    [subject |-> i, mode |-> "generate", model |-> "gpt-image-1",
     image |-> NoneBytes, image_name |-> None,
     prompt |-> make_prompt(PersonName(i)), size |-> size_str(args.size),
     quality |-> quality, output_format |-> Lower(args.format)]

\* A bare except around the first generate call.
InnerCatchesAny(e) == TRUE

\* except TypeError: (line 102)
InnerCatches(e) == e = "TypeError"

\* A handler for the provider's own errors only.
OuterCatchesAPIErrorOnly(e) == e = "APIError"

\* except Exception as e: (line 114)
OuterCatches(e) ==
    e \in { "TypeError", "APIError", "IndexError", "OSError", "binascii.Error" }

\* The sleep at the end of the try body instead of in a finally clause.
AfterTrySleepInBody(outcome) == IF outcome = "failed" THEN "loop" ELSE "finally"

\* A handler that logs and raises again.
AfterTryReraise(outcome) == IF outcome = "failed" THEN "aborted" ELSE "finally"

\* Where control goes when the try body or its handler is left: the finally
\* clause, whatever the outcome.
AfterTry(outcome) == "finally"

\* An index that advances twice per iteration.
NextIndexSkip(k) == k + 2

\* enumerate(rows, 1): the index of the subject after subject k.
NextIndex(k) == k + 1

\* An open that neither creates nor truncates.
OpenWithoutCreate(files, path) == files

\* open(out_path, "wb"): creates the file, or truncates the one there.
OpenWB(files, path) == (path :> <<>>) @@ files

\* img_f.write(data) followed by the close of the with block.
WriteAll(files, path, data) == (path :> data) @@ files

ModeLine(mode, quality) ==
    [kind |-> "mode", name |-> None, file |-> None, text |-> mode, quality |-> quality]

ProgressLine(k) ==
    [kind |-> "progress", name |-> PersonName(k), file |-> OutPath(k),
     text |-> "", quality |-> NoQuality]

ErrorLine(k, e) ==
    [kind |-> "error", name |-> PersonName(k), file |-> None, text |-> e,
     quality |-> NoQuality]

DoneLine ==
    [kind |-> "done", name |-> None, file |-> None, text |-> "", quality |-> NoQuality]

-----------------------------------------------------------------------------
(* main() *)

Init ==
    /\ reader \in Tables
    /\ \E st \in StyleInputs, run \in RunInputs :
          /\ args = [style |-> st.style, format |-> run.format,
                     quality |-> run.quality, sleep |-> run.sleep,
                     size |-> DefaultSize]
          /\ style_file = st.file
          /\ out_dir0 = run.dir
          /\ out_files = run.dir
          /\ before = run.dir
    /\ pc = "load"
    /\ rows = <<>>
    /\ style_bytes = NoneBytes
    /\ i = 0
    /\ b64 = None
    /\ exc = NoExc
    /\ requests = <<>>
    /\ status = <<>>
    /\ opened = {}
    /\ slept = <<>>
    /\ replies = <<>>
    /\ moves = <<>>
    /\ console = <<>>

\* Lines 61-65: the header check and the filter; SystemExit and the
\* AttributeError of None.strip() both end the run.
LoadCSV ==
    /\ pc = "load"
    /\ LET lines == NonEmptyLines(reader.lines)
           fatal == \/ ~HasNameColumn(reader.fieldnames)
                    \/ FilterRaises(reader.fieldnames, lines)
           kept == IF fatal THEN <<>> ELSE FilterRows(reader.fieldnames, lines)
       IN  /\ rows' = kept
           /\ status' = [k \in 1..Len(kept) |-> "pending"]
           /\ slept' = [k \in 1..Len(kept) |-> <<>>]
           /\ pc' = IF fatal THEN "aborted" ELSE "style"
    /\ reader' = Closed
    /\ UNCHANGED <<args, style_file, out_dir0, out_files, style_bytes, i, b64,
                   exc, requests, before, opened, replies, console, moves>>

\* Lines 68-74.
LoadStyle ==
    /\ pc = "style"
    /\ IF TruthyStr(args.style)
       THEN IF style_file = Unreadable
            THEN /\ pc' = "aborted"
                 /\ UNCHANGED <<style_bytes, console>>
            ELSE /\ style_bytes' = style_file
                 /\ console' = Append(console, ModeLine("STYLE-REF", NoQuality))
                 /\ pc' = "loop"
       ELSE /\ console' = Append(console, ModeLine("TEXT-ONLY", args.quality))
            /\ pc' = "loop"
            /\ UNCHANGED style_bytes
    /\ UNCHANGED <<reader, args, style_file, out_dir0, out_files, rows, i,
                   b64, exc, requests, status, before, opened, slept, replies,
                   moves>>

\* Lines 76-80: the next row of the batch.
NextSubject ==
    /\ pc = "loop"
    /\ NextIndex(i) <= Len(rows)
    /\ i' = NextIndex(i)
    /\ console' = Append(console, ProgressLine(NextIndex(i)))
    /\ before' = out_files
    /\ pc' = "try"
    /\ UNCHANGED <<reader, args, style_file, out_dir0, out_files, rows,
                   style_bytes, b64, exc, requests, status, opened, slept,
                   replies, moves>>

\* Lines 76 and 119: the batch is exhausted.
Finish ==
    /\ pc = "loop"
    /\ NextIndex(i) > Len(rows)
    /\ console' = Append(console, DoneLine)
    /\ pc' = "done"
    /\ UNCHANGED <<reader, args, style_file, out_dir0, out_files, rows,
                   style_bytes, i, b64, exc, requests, status, before, opened,
                   slept, replies, moves>>

\* Lines 83-101: the request of the subject, by mode.
SendRequest ==
    /\ pc = "try"
    /\ IF UseEdit(style_bytes)
       THEN /\ requests' = Append(requests, EditRequest)
            /\ pc' = "edit"
       ELSE /\ requests' = Append(requests, GenerateRequest(args.quality))
            /\ pc' = "generate"
    /\ UNCHANGED <<reader, args, style_file, out_dir0, out_files, rows,
                   style_bytes, i, b64, exc, status, before, opened, slept,
                   replies, console, moves>>

\* An exception e in the try body (lines 82-115): the handler logs it and
\* the subject has failed, or it propagates through the finally clause.
Raise(e) ==
    /\ IF OuterCatches(e)
       THEN /\ console' = Append(console, ErrorLine(i, e))
            /\ status' = [status EXCEPT ![i] = "failed"]
            /\ moves' = Append(moves, Move(i, status[i], "failed"))
            /\ exc' = NoExc
            /\ pc' = AfterTry("failed")
       ELSE /\ exc' = e
            /\ pc' = "finally"
            /\ UNCHANGED <<console, status, moves>>

InFlight == pc \in { "edit", "generate", "fallback" }

\* The provider call raises: a TypeError of the first generate call is
\* answered by the call without quality (lines 102-108), anything else
\* leaves the try body.
ProviderRaises ==
    /\ InFlight
    /\ \E e \in ProviderErrors :
          /\ replies' = Append(replies, e)
          /\ IF pc = "generate" /\ InnerCatches(e)
             THEN /\ requests' = Append(requests, GenerateRequest(NoQuality))
                  /\ pc' = "fallback"
                  /\ UNCHANGED <<exc, status, moves, console>>
             ELSE /\ Raise(e)
                  /\ UNCHANGED requests
    /\ UNCHANGED b64
    /\ UNCHANGED <<reader, args, style_file, out_dir0, out_files, rows,
                   style_bytes, i, before, opened, slept>>

\* The provider call returns, and line 110 takes the payload of the first
\* image (IndexError when there is none).
ProviderReturns ==
    /\ InFlight
    /\ \E result \in Responses :
          /\ replies' = Append(replies, "returned")
          /\ IF result.data = <<>>
             THEN /\ Raise("IndexError")
                  /\ UNCHANGED b64
             ELSE /\ b64' = result.data[1]
                  /\ pc' = "open"
                  /\ UNCHANGED <<exc, status, moves, console>>
    /\ UNCHANGED <<reader, args, style_file, out_dir0, out_files, rows,
                   style_bytes, i, requests, before, opened, slept>>

\* Line 111, the file opens.
OpenOk ==
    /\ pc = "open"
    /\ out_files' = OpenWB(out_files, OutPath(i))
    /\ opened' = opened \cup {i}
    /\ pc' = "write"
    /\ UNCHANGED <<reader, args, style_file, out_dir0, rows, style_bytes, i,
                   b64, exc, requests, status, before, slept, replies,
                   console, moves>>

\* Line 111, open raises OSError.
OpenFails ==
    /\ pc = "open"
    /\ Raise("OSError")
    /\ UNCHANGED <<reader, args, style_file, out_dir0, out_files, rows,
                   style_bytes, i, b64, requests, before, opened, slept,
                   replies>>

\* Line 112: the argument is decoded first; b64decode raises on None and on
\* a malformed string, with the file already open.
DecodeFails ==
    /\ pc = "write"
    /\ ~B64Decode(b64).ok
    /\ Raise(DecodeError(b64))
    /\ UNCHANGED <<reader, args, style_file, out_dir0, out_files, rows,
                   style_bytes, i, b64, requests, before, opened, slept,
                   replies>>

\* Lines 111-112: the bytes are written and the file closed.
WriteOk ==
    /\ pc = "write"
    /\ B64Decode(b64).ok
    /\ out_files' = WriteAll(out_files, OutPath(i), B64Decode(b64).bytes)
    /\ status' = [status EXCEPT ![i] = "written"]
    /\ moves' = Append(moves, Move(i, status[i], "written"))
    /\ pc' = AfterTry("written")
    /\ UNCHANGED <<reader, args, style_file, out_dir0, rows, style_bytes, i,
                   b64, exc, requests, before, opened, slept, replies, console>>

\* Lines 111-112: the write or the close raises OSError; some strict prefix
\* of the bytes has reached the file.
WriteFails ==
    /\ pc = "write"
    /\ B64Decode(b64).ok
    /\ \E n \in 0..(Len(B64Decode(b64).bytes) - 1) :
          out_files' = WriteAll(out_files, OutPath(i),
                                SubSeq(B64Decode(b64).bytes, 1, n))
    /\ Raise("OSError")
    /\ UNCHANGED <<reader, args, style_file, out_dir0, rows, style_bytes, i,
                   b64, requests, before, opened, slept, replies>>

\* Lines 116-117: time.sleep(args.sleep); an exception the handler did not
\* catch then leaves main().  b64 is not read again before line 110 assigns
\* it, so its old value is dropped here.
Sleep ==
    /\ pc = "finally"
    /\ slept' = [slept EXCEPT ![i] = Append(@, args.sleep)]
    /\ pc' = IF exc = NoExc THEN "loop" ELSE "aborted"
    /\ b64' = None
    /\ UNCHANGED <<reader, args, style_file, out_dir0, out_files, rows,
                   style_bytes, i, exc, requests, status, before, opened,
                   replies, console, moves>>

Next ==
    \/ LoadCSV
    \/ LoadStyle
    \/ NextSubject
    \/ Finish
    \/ SendRequest
    \/ ProviderRaises
    \/ ProviderReturns
    \/ OpenOk
    \/ OpenFails
    \/ DecodeFails
    \/ WriteOk
    \/ WriteFails
    \/ Sleep

Spec == Init /\ [][Next]_vars

\* Every step of main() is eventually taken: each provider call returns or
\* raises, each file operation completes, each sleep ends.
FairSpec == Spec /\ WF_vars(Next)

TypeOK ==
    /\ pc \in { "load", "style", "loop", "try", "edit", "generate", "fallback",
                "open", "write", "finally", "done", "aborted" }
    /\ i \in 0..Len(rows)
    /\ Len(status) = Len(rows)


-----------------------------------------------------------------------------
(* Vocabulary of the properties *)

Subjects == 1..Len(rows)

Terminal(k) == status[k] \in { "written", "failed" }

\* Subject k failed: its error was logged, or is propagating.
Failed(k) == status[k] = "failed" \/ (k = i /\ exc # NoExc)

RequestsOf(k) == { r \in 1..Len(requests) : requests[r].subject = k }

Requested(k) == RequestsOf(k) # {}

First(S) == CHOOSE r \in S : \A q \in S : r <= q

Last(S) == CHOOSE r \in S : \A q \in S : q <= r

Written == { k \in Subjects : status[k] = "written" }

\* The content of the file of that name, as a sequence of zero or one bytes
\* values: <<>> when there is no such file.
FileAt(files, name) == IF name \in DOMAIN files THEN <<files[name]>> ELSE <<>>

StyleConfigured == args.style # None /\ style_file # Unreadable

StartedEmpty == DOMAIN out_dir0 = {}

\* The file name the specification gives a subject: every space of the name
\* an underscore, a dot, the configured format.
Underscored(name) == [k \in 1..Len(name) |-> IF name[k] = " " THEN "_" ELSE name[k]]

SpecFileName(k) == Underscored(PersonName(k)) \o <<".">> \o args.format

\* RFC 4648 values of the payloads of the model.
RawBytes(payload) ==
    CASE payload = <<"Q", "U", "I", "=">> -> <<65, 66>>
      [] payload = <<"Q", "!", "Q", "=", "=">> -> <<65>>
      [] OTHER -> <<>>

IsBlank(v) == \A k \in 1..Len(v) : v[k] \in Whitespace

\* The position of the 'name' column, and the input lines that have a
\* non-blank value there, in input order.
NameColumn(fieldnames) == CHOOSE k \in 1..Len(fieldnames) : fieldnames[k] = "name"

RECURSIVE NonBlankNames(_, _)
NonBlankNames(fieldnames, lines) ==
    IF lines = <<>> THEN <<>>
    ELSE LET c == NameColumn(fieldnames)
             l == Head(lines)
             rest == NonBlankNames(fieldnames, Tail(lines))
         IN  IF c <= Len(l) /\ ~IsBlank(l[c]) THEN <<l[c]>> \o rest ELSE rest

LinesOf(kind) == { n \in 1..Len(console) : console[n].kind = kind }

-----------------------------------------------------------------------------
(* Properties *)

\* C1: failure isolation. Whenever some subject has failed, a request is
\* eventually issued for every subject after each failed one.
C1_FailureIsolation ==
    (\E k \in Subjects : Failed(k))
      ~> (\A k \in Subjects : Failed(k) => \A j \in (k + 1)..Len(rows) : Requested(j))

C1_Witness ==
    \E k \in Subjects : \E j \in Subjects :
        k < j /\ status[k] = "failed" /\ Requested(j)

\* C2: with a style reference configured and readable, every request is an
\* edit request carrying the reference bytes and no quality parameter.
C2_StyleMeansEdit ==
    StyleConfigured =>
        \A r \in 1..Len(requests) :
            /\ requests[r].mode = "edit"
            /\ requests[r].image = style_file
            /\ requests[r].quality = NoQuality

\* C3: without a style reference every request is a generate request; per
\* subject the first carries the configured quality, a second one exists
\* only after the first was answered by TypeError and carries no quality,
\* there are at most two, and a failed second request leaves the subject
\* failed.
C3_GenerateWithOneFallback ==
    args.style = None =>
        /\ \A r \in 1..Len(requests) : requests[r].mode = "generate"
        /\ \A k \in Subjects :
              LET rs == RequestsOf(k)
              IN  /\ Cardinality(rs) <= 2
                  /\ rs # {} => requests[First(rs)].quality = args.quality
                  /\ Cardinality(rs) = 2 =>
                        /\ replies[First(rs)] = "TypeError"
                        /\ requests[Last(rs)].quality = NoQuality
                        /\ (Len(replies) >= Last(rs)
                            /\ replies[Last(rs)] \in ProviderErrors)
                              => status[k] = "failed"

C3_Witness ==
    /\ args.style = None
    /\ \E k \in Subjects :
          /\ Cardinality(RequestsOf(k)) = 2
          /\ Len(replies) >= Last(RequestsOf(k))
          /\ replies[Last(RequestsOf(k))] = "APIError"
          /\ status[k] = "failed"

\* C4: when a subject has just failed, the file at its output path is as it
\* was when the subject began (absent, or with the same contents), and the
\* last line printed is the error line with the subject's name.
C4_NoPartialFile ==
    (pc = "finally" /\ i >= 1 /\ status[i] = "failed") =>
        /\ FileAt(out_files, OutPath(i)) = FileAt(before, OutPath(i))
        /\ console[Len(console)].kind = "error"
        /\ console[Len(console)].name = PersonName(i)

\* C5: for a table with a 'name' column the load does not abort, and the
\* batch is the non-blank name values in input order.
C5_BatchIsNonBlankRows ==
    [][(pc = "load" /\ HasNameColumn(reader.fieldnames)) =>
          /\ pc' = "style"
          /\ rows' = NonBlankNames(reader.fieldnames, reader.lines)]_vars

\* C6: right after a subject is written, the file named by the name with
\* underscores for spaces and the configured format holds the raw bytes of
\* the payload the provider returned for it.
C6_FileHoldsDecodedPayload ==
    (pc = "finally" /\ i >= 1 /\ status[i] = "written") =>
        FileAt(out_files, SpecFileName(i)) = <<RawBytes(b64)>>

C6_Witness ==
    /\ pc = "finally" /\ i >= 1 /\ status[i] = "written"
    /\ PersonName(i) = <<"A", " ", "B">>
    /\ b64 = <<"Q", "!", "Q", "=", "=">>
    /\ FileAt(before, SpecFileName(i)) = <<<<9, 9, 9>>>>
    /\ out_files[<<"A", "_", "B", ".", "j", "p", "e", "g">>] = <<65>>

\* C7 as stated: from an empty directory, at the end of the run the number
\* of files equals the number of subjects written.
C7_OneFilePerWrittenSubject ==
    (pc = "done" /\ StartedEmpty) =>
        Cardinality(DOMAIN out_files) = Cardinality(Written)

\* C7 amended: from an empty directory, at the end of the run the files are
\* exactly the output names of the subjects whose file was opened for
\* writing, every written subject among them.
C7_FilesAreOpenedNames ==
    (pc = "done" /\ StartedEmpty) =>
        /\ DOMAIN out_files = { SpecFileName(k) : k \in opened }
        /\ Written \subseteq opened
        /\ opened \subseteq Subjects

C7_Witness ==
    /\ pc = "done" /\ StartedEmpty
    /\ Cardinality(Written) = 2
    /\ Cardinality(DOMAIN out_files) = 1
    /\ rows[1] # rows[2]

\* C8: the configured delay is taken exactly once after every subject,
\* written or failed, and before anything else: a finished subject is
\* either about to sleep or has slept once, for args.sleep, and a request
\* for a subject exists only when every earlier subject has slept.
C8_PacingDelay ==
    /\ \A k \in Subjects :
          /\ Len(slept[k]) <= 1
          /\ \A n \in 1..Len(slept[k]) : slept[k][n] = args.sleep
          /\ Len(slept[k]) = 1 => Terminal(k)
          /\ Terminal(k) => (Len(slept[k]) = 1 \/ (k = i /\ pc = "finally"))
    /\ \A r \in 1..Len(requests) :
          \A k \in 1..(requests[r].subject - 1) : Len(slept[k]) = 1

C8_Witness ==
    /\ Len(rows) >= 2
    /\ Requested(2)
    /\ status[1] = "failed"
    /\ Cardinality(RequestsOf(1)) = 2
    /\ slept[1] = <<args.sleep>>
    /\ \E k \in Subjects : status[k] = "written" /\ slept[k] = <<args.sleep>>

\* C9: the per-subject machine. Subjects before the current one are
\* finished, those after it are pending and untouched, each begun subject
\* has one progress line, requests are in input order, a finished run has
\* finished every subject; the status of a subject changes at most once,
\* from pending to written or failed, in input order, while it is the
\* current subject, and no request for it follows that change.
C9_SubjectMachine ==
    /\ \A k \in Subjects :
          /\ k < i => Terminal(k)
          /\ k > i => status[k] = "pending" /\ ~Requested(k)
          /\ Cardinality({ m \in 1..Len(moves) : moves[m].subject = k })
                = IF Terminal(k) THEN 1 ELSE 0
    /\ Cardinality(LinesOf("progress")) = i
    /\ \A n \in LinesOf("progress") :
          console[n] = ProgressLine(Cardinality({ m \in LinesOf("progress") : m <= n }))
    /\ \A r \in 1..Len(requests) : \A q \in 1..Len(requests) :
          r <= q => requests[r].subject <= requests[q].subject
    /\ \A m \in 1..Len(moves) :
          /\ moves[m].subject = m
          /\ moves[m].from = "pending"
          /\ moves[m].to = status[m]
          /\ Terminal(m)
          /\ RequestsOf(m) \subseteq 1..moves[m].sent
    /\ pc \in { "try", "edit", "generate", "fallback", "open", "write" }
          => status[i] = "pending"
    /\ pc = "done" => \A k \in Subjects : Terminal(k)

C9_Witness ==
    /\ pc = "done"
    /\ Len(rows) >= 2
    /\ status[1] = "failed"
    /\ status[2] = "written"

\* C10: once startup has succeeded the run completes: every subject is
\* written or failed and has had its delay, and the final line is printed,
\* once and last.
Completed ==
    /\ pc = "done"
    /\ \A k \in Subjects : Terminal(k) /\ Len(slept[k]) = 1
    /\ Cardinality(LinesOf("done")) = 1
    /\ console[Len(console)] = DoneLine

C10_RunCompletes ==
    /\ (pc = "loop") ~> Completed
    /\ [](LinesOf("done") # {} => Completed)

C10_Witness ==
    /\ Completed
    /\ \E k \in Subjects : status[k] = "failed"
    /\ \E k \in Subjects : status[k] = "written"

====
